---- MODULE Spec2Model ----
(***************************************************************************)
(* Merge-lattice construction of src/lower/merge_lattice.cpp.              *)
(*                                                                         *)
(* MergeLattice::make is a pure function of an index expression, an index  *)
(* variable, the iteration schedule and the iterator registry.  It is      *)
(* modelled as the recursive operator buildLattice; the specification Spec *)
(* draws its inputs from bounded sets and applies make and getSubLattice.  *)
(* SpecPoint applies the point algebra (merge) to arbitrary well-formed    *)
(* points and SpecSimplify applies simplify to arbitrary iterator lists.   *)
(***************************************************************************)
EXTENDS Integers, Sequences, FiniteSets

VARIABLES
    indexExpr,    \* make: the index expression
    indexVar,     \* make: the target index variable of the call
    iterators,    \* the iterator registry of the call: step -> iterator handle
    pc,           \* position of the caller
    lattice,      \* outcome of make (status, failing line, points)
    subLattice,   \* outcome of the last getSubLattice call
    pointA,       \* point algebra: left operand
    pointB,       \* point algebra: right operand
    merged,       \* point algebra: outcome of conjunction/disjunction
    simplifyIn,   \* simplify: argument
    simplifyOut   \* simplify: the results of the calls so far

vars == <<indexExpr, indexVar, iterators, pc, lattice, subLattice,
          pointA, pointB, merged, simplifyIn, simplifyOut>>

-----------------------------------------------------------------------------
(* Bounds *)

\* Largest number of nodes of an index expression
MaxNodes == 5

\* Longest iterator list of an operand point of the point algebra
MaxIters == 1

\* Longest merge-iterator list of an operand point of the point algebra
MaxMerge == 2

\* Longest argument of simplify
MaxLen == 3

-----------------------------------------------------------------------------
(* Inputs: index variables, tensors, reads, expressions *)

IndexVars == {"i", "j"}

Tensors == {"A", "B", "C"}

\* The index variables each tensor is read with
ReadVars(t) == CASE t = "A" -> <<"i">>
                 [] t = "B" -> <<"j", "i">>
                 [] t = "C" -> <<"i", "j">>

ReadOf(t) == [op |-> "Read", tensor |-> t, indexVars |-> ReadVars(t)]

Reads == {ReadOf(t) : t \in Tensors}

ImmOps == {"IntImm", "FloatImm", "DoubleImm"}
UnaryOps == {"Neg", "Sqrt"}
DisjunctiveOps == {"Add", "Sub"}
ConjunctiveOps == {"Mul", "Div"}
BinaryOps == DisjunctiveOps \cup ConjunctiveOps

Imms == {[op |-> o] : o \in ImmOps}

\* The expressions of exactly n nodes, given bySize[k], those of k < n nodes
ExprsOfSize(n, bySize) ==
    {[op |-> o, a |-> x] : o \in UnaryOps, x \in bySize[n - 1]}
    \cup UNION {{[op |-> o, a |-> x, b |-> y] :
                   o \in BinaryOps, x \in bySize[k], y \in bySize[n - 1 - k]} :
                k \in 1..(n - 2)}

\* The sequence of the sets of expressions of 1, 2, ..., m nodes
RECURSIVE ExprsBySize(_, _)
ExprsBySize(bySize, m) ==
    IF Len(bySize) >= m THEN bySize
    ELSE ExprsBySize(Append(bySize, ExprsOfSize(Len(bySize) + 1, bySize)), m)

\* e is an expression of at most m nodes: a leaf, or an operator applied to
\* expressions of fewer nodes
IsExprUpTo(e, m) ==
    LET bySize == ExprsBySize(<<Reads \cup Imms>>, m - 1)
    IN  \/ e \in Reads \cup Imms
        \/ \E n \in 3..m : \E k \in 1..(n - 2) :
              \E o \in BinaryOps, x \in bySize[k], y \in bySize[n - 1 - k] :
                 e = [op |-> o, a |-> x, b |-> y]
        \/ \E n \in 2..m : \E o \in UnaryOps, x \in bySize[n - 1] :
              e = [op |-> o, a |-> x]

\* The steps of the tensor paths: (tensor, level)
Steps == {[tensor |-> t, level |-> l] : t \in Tensors, l \in 1..2}

IteratorId(step) == CASE step.tensor = "A" -> step.level
                      [] step.tensor = "B" -> 2 + step.level
                      [] step.tensor = "C" -> 4 + step.level

\* The registries: one handle per step, the levels of a tensor all dense or
\* all sparse
Registries ==
    {[s \in Steps |-> [id |-> IteratorId(s), dense |-> fmt[s.tensor]]] :
        fmt \in [Tensors -> BOOLEAN]}

None == [status |-> "none"]

-----------------------------------------------------------------------------
(* Collaborators: iterator handles, schedule, registry *)

\* storage::Iterator::isDense
isDense(iter) == iter.dense

\* operator< of storage::Iterator: the total order of the handles
IteratorLess(x, y) == x.id < y.id

\* getDenseIterators: the dense iterators of a list, in order
getDenseIterators(iters) == SelectSeq(iters, isDense)

\* IterationSchedule::getTensorPath: the path of a read lists the index
\* variables of the read, one step per variable
getTensorPath(read) == [tensor |-> read.tensor, variables |-> read.indexVars]

\* TensorPath::getStep
getStep(path, i) == [tensor |-> path.tensor, level |-> i]

\* util::contains on a vector
contains(seq, x) == \E k \in 1..Len(seq) : seq[k] = x

\* util::locate: the position of the first occurrence
locate(seq, x) == CHOOSE k \in 1..Len(seq) :
                     seq[k] = x /\ \A m \in 1..(k - 1) : seq[m] # x

-----------------------------------------------------------------------------
(* Outcomes: a call returns, or stops at a failed taco_iassert (with its   *)
(* source line) or at taco_not_supported_yet                               *)

Ok(points) == [status |-> "ok", line |-> 0, points |-> points]

Failed(kind, line) == [status |-> kind, line |-> line, points |-> <<>>]

-----------------------------------------------------------------------------
(* simplify and the lattice point *)

\* Faulty variant of simplify: keeps every iterator of an all-dense list
simplifyKeepsAllDense(iters) ==
    LET simplifiedIterators == SelectSeq(iters, LAMBDA it : ~isDense(it))
    IN  IF Len(simplifiedIterators) = 0 THEN iters ELSE simplifiedIterators

simplify(iters) ==
    LET simplifiedIterators == SelectSeq(iters, LAMBDA it : ~isDense(it))
    IN  IF Len(simplifiedIterators) = 0
        THEN <<iters[1]>>
        ELSE simplifiedIterators

\* The taco_iassert of simplify, reached when no sparse iterator was kept
simplifyAssert(iters) ==
    Len(SelectSeq(iters, LAMBDA it : ~isDense(it))) = 0 => Len(iters) > 0

MergeLatticePoint(iters, mergeIters, expr) ==
    [iterators      |-> iters,
     rangeIterators |-> simplify(iters),
     mergeIterators |-> mergeIters,
     expr           |-> expr]

\* Faulty variant of mergeIterators: always the union of the two lists
mergeIteratorsUnion(aMergeIters, bMergeIters, conjunctive) ==
    aMergeIters \o bMergeIters

\* Faulty variant of mergeIterators: the dense and the sparse side exchanged
\* when exactly one list is dense
mergeIteratorsExchanged(aMergeIters, bMergeIters, conjunctive) ==
    IF ~isDense(aMergeIters[1]) /\ ~isDense(bMergeIters[1])
    THEN aMergeIters \o bMergeIters
    ELSE IF isDense(aMergeIters[1]) /\ isDense(bMergeIters[1])
    THEN aMergeIters
    ELSE IF conjunctive
    THEN (IF isDense(aMergeIters[1]) THEN aMergeIters ELSE bMergeIters)
    ELSE (IF isDense(aMergeIters[1]) THEN bMergeIters ELSE aMergeIters)

\* The merge iterators of the result of merge
mergeIterators(aMergeIters, bMergeIters, conjunctive) ==
    IF ~isDense(aMergeIters[1]) /\ ~isDense(bMergeIters[1])
    THEN aMergeIters \o bMergeIters
    ELSE IF isDense(aMergeIters[1]) /\ isDense(bMergeIters[1])
    THEN aMergeIters
    ELSE IF conjunctive
    THEN (IF isDense(aMergeIters[1]) THEN bMergeIters ELSE aMergeIters)
    ELSE (IF isDense(aMergeIters[1]) THEN aMergeIters ELSE bMergeIters)

\* merge<op>: the outcome holds the one merged point.  The source indexes
\* element 0 of both merge-iterator lists; the lists are non-empty wherever
\* merge is applied here
merge(op, a, b, conjunctive) ==
    LET iters == a.iterators \o b.iterators
        expr  == [op |-> op, a |-> a.expr, b |-> b.expr]
        aMergeIters == a.mergeIterators
        bMergeIters == b.mergeIterators
        mergeIters  == mergeIterators(aMergeIters, bMergeIters, conjunctive)
    IN  IF ~(Len(aMergeIters) = 1 \/ Len(getDenseIterators(aMergeIters)) = 0)
        THEN Failed("iassert", 371)
        ELSE IF ~(Len(bMergeIters) = 1 \/ Len(getDenseIterators(bMergeIters)) = 0)
        THEN Failed("iassert", 373)
        ELSE IF ~(Len(mergeIters) > 0)
        THEN Failed("iassert", 399)
        ELSE IF ~simplifyAssert(iters)
        THEN Failed("iassert", 453)
        ELSE Ok(<<MergeLatticePoint(iters, mergeIters, expr)>>)

conjunctionPoint(op, a, b) == merge(op, a, b, TRUE)

disjunctionPoint(op, a, b) == merge(op, a, b, FALSE)

-----------------------------------------------------------------------------
(* Lattices: sequences of points *)

defined(points) == Len(points) > 0

\* scale<op>(lattice, scale, leftScale)
scale(op, points, s, leftScale) ==
    [k \in 1..Len(points) |->
        MergeLatticePoint(points[k].iterators, points[k].mergeIterators,
                          IF leftScale
                          THEN [op |-> op, a |-> s, b |-> points[k].expr]
                          ELSE [op |-> op, a |-> points[k].expr, b |-> s])]

\* unary<op>(lattice)
unary(op, points) ==
    [k \in 1..Len(points) |->
        MergeLatticePoint(points[k].iterators, points[k].mergeIterators,
                          [op |-> op, a |-> points[k].expr])]

\* The outcomes of the point merges of all combinations, a outer, b inner
allCombinations(op, a, b, conjunctive) ==
    [k \in 1..(Len(a) * Len(b)) |->
        merge(op, a[((k - 1) \div Len(b)) + 1], b[((k - 1) % Len(b)) + 1],
              conjunctive)]

\* The first combination that stopped at an assertion, 0 when none did
firstFailed(outcomes) ==
    IF \E k \in 1..Len(outcomes) : outcomes[k].status # "ok"
    THEN CHOOSE k \in 1..Len(outcomes) :
            /\ outcomes[k].status # "ok"
            /\ \A m \in 1..(k - 1) : outcomes[m].status = "ok"
    ELSE 0

\* conjunction<op>(MergeLattice, MergeLattice)
conjunction(op, a, b) ==
    LET outcomes == allCombinations(op, a, b, TRUE)
        f == firstFailed(outcomes)
    IN  IF f # 0 THEN outcomes[f]
        ELSE Ok([k \in 1..Len(outcomes) |-> outcomes[k].points[1]])

\* Faulty variant of prune: removes no point
pruneNothing(allPoints, denseIterators) == allPoints

\* The pruning loop of disjunction: the points that miss none of the dense
\* iterators
prune(allPoints, denseIterators) ==
    SelectSeq(allPoints,
              LAMBDA point : \A k \in 1..Len(denseIterators) :
                                contains(point.iterators, denseIterators[k]))

\* Faulty variant of disjunction: the points of a and b appended before the
\* combinations
disjunctionOperandsFirst(op, a, b) ==
    LET outcomes == allCombinations(op, a, b, FALSE)
        f == firstFailed(outcomes)
        allPoints == a \o b \o [k \in 1..Len(outcomes) |-> outcomes[k].points[1]]
    IN  IF f # 0 THEN outcomes[f]
        ELSE IF ~(Len(allPoints) > 0) THEN Failed("iassert", 280)
        ELSE LET points == prune(allPoints,
                                 getDenseIterators(allPoints[1].iterators))
             IN  IF ~(Len(points) > 0) THEN Failed("iassert", 302)
                 ELSE Ok(points)

\* Faulty variant of disjunction: the points of b are not appended
disjunctionWithoutB(op, a, b) ==
    LET outcomes == allCombinations(op, a, b, FALSE)
        f == firstFailed(outcomes)
        allPoints == [k \in 1..Len(outcomes) |-> outcomes[k].points[1]] \o a
    IN  IF f # 0 THEN outcomes[f]
        ELSE IF ~(Len(allPoints) > 0) THEN Failed("iassert", 280)
        ELSE LET points == prune(allPoints,
                                 getDenseIterators(allPoints[1].iterators))
             IN  IF ~(Len(points) > 0) THEN Failed("iassert", 302)
                 ELSE Ok(points)

\* disjunction<op>(MergeLattice, MergeLattice)
disjunction(op, a, b) ==
    LET outcomes == allCombinations(op, a, b, FALSE)
        f == firstFailed(outcomes)
        allPoints == [k \in 1..Len(outcomes) |-> outcomes[k].points[1]] \o a \o b
    IN  IF f # 0 THEN outcomes[f]
        ELSE IF ~(Len(allPoints) > 0) THEN Failed("iassert", 280)
        ELSE LET points == prune(allPoints,
                                 getDenseIterators(allPoints[1].iterators))
             IN  IF ~(Len(points) > 0) THEN Failed("iassert", 302)
                 ELSE Ok(points)

\* MergeLattice::getSubLattice: std::includes on the sorted lists
RECURSIVE sort(_)
sort(iters) ==
    IF Len(iters) <= 1 THEN iters
    ELSE LET rest == sort(Tail(iters))
             x == Head(iters)
             n == Cardinality({k \in 1..Len(rest) : ~IteratorLess(x, rest[k])})
         IN  SubSeq(rest, 1, n) \o <<x>> \o SubSeq(rest, n + 1, Len(rest))

RECURSIVE includes(_, _)
includes(first, second) ==
    IF Len(second) = 0 THEN TRUE
    ELSE IF Len(first) = 0 \/ IteratorLess(Head(second), Head(first)) THEN FALSE
    ELSE IF ~IteratorLess(Head(first), Head(second))
    THEN includes(Tail(first), Tail(second))
    ELSE includes(Tail(first), second)

getSubLattice(points, lp) ==
    LET lpIterators == sort(lp.iterators)
    IN  SelectSeq(points, LAMBDA lq : includes(lpIterators, sort(lq.iterators)))

-----------------------------------------------------------------------------
(* BuildMergeLattice: the visitor of MergeLattice::make *)

visitRead(expr, var, registry) ==
    IF ~contains(expr.indexVars, var)
    THEN Ok(<<>>)
    ELSE LET path == getTensorPath(expr)
             i    == locate(path.variables, var)
             iter == registry[getStep(path, i)]
         IN  Ok(<<MergeLatticePoint(<<iter>>, <<iter>>, expr)>>)

\* Faulty variant of visitBinary: no scaling when only b is defined
visitBinaryNoLeftScale(expr, a, b) ==
    IF a.status # "ok" THEN a
    ELSE IF b.status # "ok" THEN b
    ELSE IF defined(a.points) /\ defined(b.points)
    THEN (IF expr.op \in DisjunctiveOps
          THEN disjunction(expr.op, a.points, b.points)
          ELSE conjunction(expr.op, a.points, b.points))
    ELSE IF defined(a.points)
    THEN Ok(scale(expr.op, a.points, expr.b, FALSE))
    ELSE Ok(<<>>)

\* visit(Add), visit(Sub), visit(Mul), visit(Div) once both operands are built
visitBinary(expr, a, b) ==
    IF a.status # "ok" THEN a
    ELSE IF b.status # "ok" THEN b
    ELSE IF defined(a.points) /\ defined(b.points)
    THEN (IF expr.op \in DisjunctiveOps
          THEN disjunction(expr.op, a.points, b.points)
          ELSE conjunction(expr.op, a.points, b.points))
    ELSE IF defined(a.points)
    THEN Ok(scale(expr.op, a.points, expr.b, FALSE))
    ELSE IF defined(b.points)
    THEN Ok(scale(expr.op, b.points, expr.a, TRUE))
    ELSE Ok(<<>>)

\* visit(Neg), visit(Sqrt) once the operand is built
visitUnary(expr, a) ==
    IF a.status # "ok" THEN a ELSE Ok(unary(expr.op, a.points))

\* Faulty variant of visitImm: a literal taken as a scalar operand
visitImmAsScalar(expr) == Ok(<<>>)

\* visit(IntImm), visit(FloatImm), visit(DoubleImm)
visitImm(expr) ==
    Failed("not_supported", CASE expr.op = "IntImm" -> 169
                              [] expr.op = "FloatImm" -> 173
                              [] expr.op = "DoubleImm" -> 177)

RECURSIVE buildLattice(_, _, _)
buildLattice(expr, var, registry) ==
    IF expr.op = "Read" THEN visitRead(expr, var, registry)
    ELSE IF expr.op \in ImmOps THEN visitImm(expr)
    ELSE IF expr.op \in UnaryOps
    THEN visitUnary(expr, buildLattice(expr.a, var, registry))
    ELSE LET a == buildLattice(expr.a, var, registry)
         IN  IF a.status # "ok" THEN a
             ELSE visitBinary(expr, a, buildLattice(expr.b, var, registry))

\* MergeLattice::make
make(expr, var, registry) ==
    LET l == buildLattice(expr, var, registry)
    IN  IF l.status # "ok" THEN l
        ELSE IF ~(Len(l.points) > 0) THEN Failed("iassert", 183)
        ELSE l

-----------------------------------------------------------------------------
(* Spec: make and getSubLattice on every input within the bounds *)

Init ==
    /\ IsExprUpTo(indexExpr, MaxNodes)
    /\ indexVar = "none"
    /\ iterators = None
    /\ pc = "start"
    /\ lattice = None
    /\ subLattice = None
    /\ pointA = None
    /\ pointB = None
    /\ merged = None
    /\ simplifyIn = <<>>
    /\ simplifyOut = <<>>

\* The call MergeLattice::make(indexExpr, var, schedule, registry)
Make ==
    /\ pc = "start"
    /\ \E var \in IndexVars, registry \in Registries :
          /\ indexVar' = var
          /\ iterators' = registry
          /\ lattice' = make(indexExpr, var, registry)
    /\ pc' = "done"
    /\ UNCHANGED <<indexExpr, subLattice,
                   pointA, pointB, merged, simplifyIn, simplifyOut>>

GetSubLattice ==
    /\ pc = "done"
    /\ lattice.status = "ok"
    /\ \E k \in 1..Len(lattice.points) :
          subLattice' = [status |-> "ok", lp |-> k,
                         points |-> getSubLattice(lattice.points,
                                                  lattice.points[k])]
    /\ UNCHANGED <<indexExpr, indexVar, iterators, pc, lattice,
                   pointA, pointB, merged, simplifyIn, simplifyOut>>

Next == Make \/ GetSubLattice

Spec == Init /\ [][Next]_vars


-----------------------------------------------------------------------------
(* SpecPoint: conjunction and disjunction of two well-formed points *)

\* The handles the registry gives for the first level of each tensor
Handles(registry) == {registry[[tensor |-> t, level |-> 1]] : t \in Tensors}

\* The sequences over S of length lo..hi
SeqsOf(S, lo, hi) == UNION {[1..n -> S] : n \in lo..hi}

\* The merge-iterator lists that are one dense iterator or sparse iterators
MergeLists(registry) ==
    {m \in SeqsOf(Handles(registry), 1, MaxMerge) :
        \/ Len(m) = 1
        \/ \A k \in 1..Len(m) : ~isDense(m[k])}

OperandPoints(registry, expr) ==
    {MergeLatticePoint(iters, mergeIters, expr) :
        iters \in SeqsOf(Handles(registry), 1, MaxIters),
        mergeIters \in MergeLists(registry)}

InitPoint ==
    /\ iterators \in Registries
    /\ pointA \in OperandPoints(iterators, ReadOf("A"))
    /\ pointB \in OperandPoints(iterators, ReadOf("B"))
    /\ merged = None
    /\ pc = "point"
    /\ indexExpr = None
    /\ indexVar = "i"
    /\ lattice = None
    /\ subLattice = None
    /\ simplifyIn = <<>>
    /\ simplifyOut = <<>>

Conjunction ==
    /\ pc = "point"
    /\ \E op \in ConjunctiveOps :
          merged' = [status |-> "called", conjunctive |-> TRUE, op |-> op,
                     out |-> conjunctionPoint(op, pointA, pointB)]
    /\ UNCHANGED <<indexExpr, indexVar, iterators, pc, lattice, subLattice,
                   pointA, pointB, simplifyIn, simplifyOut>>

Disjunction ==
    /\ pc = "point"
    /\ \E op \in DisjunctiveOps :
          merged' = [status |-> "called", conjunctive |-> FALSE, op |-> op,
                     out |-> disjunctionPoint(op, pointA, pointB)]
    /\ UNCHANGED <<indexExpr, indexVar, iterators, pc, lattice, subLattice,
                   pointA, pointB, simplifyIn, simplifyOut>>

NextPoint == Conjunction \/ Disjunction

SpecPoint == InitPoint /\ [][NextPoint]_vars

-----------------------------------------------------------------------------
(* SpecSimplify: simplify, and simplify applied to its own result *)

InitSimplify ==
    /\ iterators \in Registries
    /\ simplifyIn \in SeqsOf(Handles(iterators), 0, MaxLen)
    /\ simplifyOut = <<>>
    /\ pc = "simplify"
    /\ indexExpr = None
    /\ indexVar = "i"
    /\ lattice = None
    /\ subLattice = None
    /\ pointA = None
    /\ pointB = None
    /\ merged = None

Simplify ==
    /\ pc = "simplify"
    /\ IF simplifyAssert(simplifyIn)
       THEN /\ simplifyOut' = <<simplify(simplifyIn)>>
            /\ pc' = "simplified"
       ELSE /\ simplifyOut' = <<>>
            /\ pc' = "iassert"
    /\ UNCHANGED <<indexExpr, indexVar, iterators, lattice, subLattice,
                   pointA, pointB, merged, simplifyIn>>

SimplifyAgain ==
    /\ pc = "simplified"
    /\ simplifyOut' = Append(simplifyOut, simplify(simplifyOut[1]))
    /\ pc' = "resimplified"
    /\ UNCHANGED <<indexExpr, indexVar, iterators, lattice, subLattice,
                   pointA, pointB, merged, simplifyIn>>

NextSimplify == Simplify \/ SimplifyAgain

SpecSimplify == InitSimplify /\ [][NextSimplify]_vars


-----------------------------------------------------------------------------
(* Properties *)

Returned == pc = "done" /\ lattice.status = "ok"

RECURSIVE HasImm(_)
HasImm(e) ==
    IF e.op = "Read" THEN FALSE
    ELSE IF e.op \in ImmOps THEN TRUE
    ELSE IF e.op \in UnaryOps THEN HasImm(e.a)
    ELSE HasImm(e.a) \/ HasImm(e.b)

\* The Read leaves of e, left to right
RECURSIVE ReadLeaves(_)
ReadLeaves(e) ==
    IF e.op = "Read" THEN <<e>>
    ELSE IF e.op \in ImmOps THEN <<>>
    ELSE IF e.op \in UnaryOps THEN ReadLeaves(e.a)
    ELSE ReadLeaves(e.a) \o ReadLeaves(e.b)

RECURSIVE SubExprs(_)
SubExprs(e) ==
    IF e.op = "Read" \/ e.op \in ImmOps THEN {e}
    ELSE IF e.op \in UnaryOps THEN {e} \cup SubExprs(e.a)
    ELSE {e} \cup SubExprs(e.a) \cup SubExprs(e.b)

Mentions(read, var) == \E k \in 1..Len(read.indexVars) : read.indexVars[k] = var

DependsOn(e, var) ==
    \E k \in 1..Len(ReadLeaves(e)) : Mentions(ReadLeaves(e)[k], var)

\* The iterator of a read that mentions var: the handle of the step at var's
\* position in the read
IteratorOf(read, var, registry) ==
    LET pos == CHOOSE k \in 1..Len(read.indexVars) : read.indexVars[k] = var
    IN  registry[[tensor |-> read.tensor, level |-> pos]]

Range(seq) == {seq[k] : k \in 1..Len(seq)}

Count(seq, x) == Cardinality({k \in 1..Len(seq) : seq[k] = x})

SameMultiset(s, t) ==
    /\ Len(s) = Len(t)
    /\ \A x \in Range(s) \cup Range(t) : Count(s, x) = Count(t, x)

\* The r-th smallest element of a set of numbers
Nth(P, r) == CHOOSE k \in P : Cardinality({m \in P : m <= k}) = r

OneDenseOrAllSparse(m) ==
    /\ Len(m) >= 1
    /\ \/ Len(m) = 1 /\ m[1].dense
       \/ \A k \in 1..Len(m) : ~m[k].dense

\* C1: every point of a lattice that make returns for a literal-free
\* expression has a non-empty merge-iterator list that is exactly one dense
\* iterator or only sparse iterators
MergeIteratorsWellFormed ==
    (Returned /\ ~HasImm(indexExpr)) =>
        \A k \in 1..Len(lattice.points) :
            OneDenseOrAllSparse(lattice.points[k].mergeIterators)

\* C1 witness: a returned lattice of several points, one of them merged by
\* two or more sparse iterators although it holds a dense iterator, another
\* merged by one iterator
MergeIteratorsWitness ==
    /\ Returned
    /\ \E k \in 1..Len(lattice.points) :
          LET q == lattice.points[k]
          IN  /\ Len(q.mergeIterators) >= 2
              /\ \A n \in 1..Len(q.mergeIterators) : ~q.mergeIterators[n].dense
              /\ \E n \in 1..Len(q.iterators) : q.iterators[n].dense
    /\ \E k \in 1..Len(lattice.points) :
          Len(lattice.points[k].mergeIterators) = 1

\* C2: every dense iterator of the first point of a lattice that make returns
\* is in the iterator list of every point of the lattice
DenseIteratorsInEveryPoint ==
    Returned =>
        \A n \in 1..Len(lattice.points[1].iterators) :
            LET d == lattice.points[1].iterators[n]
            IN  d.dense =>
                    \A k \in 1..Len(lattice.points) :
                        d \in Range(lattice.points[k].iterators)

\* C2 witness: a conjunction on top of a disjunction, with a dense and a
\* sparse iterator in the first point and more than one point
DenseIteratorsWitness ==
    /\ Returned
    /\ indexExpr.op \in ConjunctiveOps
    /\ indexExpr.a.op \in DisjunctiveOps
    /\ DependsOn(indexExpr.b, indexVar)
    /\ Len(lattice.points) >= 2
    /\ \E n \in 1..Len(lattice.points[1].iterators) :
          lattice.points[1].iterators[n].dense
    /\ \E n \in 1..Len(lattice.points[1].iterators) :
          ~lattice.points[1].iterators[n].dense

\* The iterators of the Read leaves that mention var, left to right
LeafIterators(e, var, registry) ==
    LET leaves == SelectSeq(ReadLeaves(e), LAMBDA r : Mentions(r, var))
    IN  [k \in 1..Len(leaves) |-> IteratorOf(leaves[k], var, registry)]

\* C3: the iterator list of the first point of a lattice that make returns
\* is, as a multiset, one iterator per Read leaf that mentions the index
\* variable
FirstPointHoldsLeafIterators ==
    Returned =>
        SameMultiset(lattice.points[1].iterators,
                     LeafIterators(indexExpr, indexVar, iterators))

\* C3 witness: a disjunction that pruned points, over an expression with a
\* Read leaf that does not mention the index variable
FirstPointWitness ==
    /\ Returned
    /\ \E k \in 1..Len(ReadLeaves(indexExpr)) :
          ~Mentions(ReadLeaves(indexExpr)[k], indexVar)
    /\ \E e \in SubExprs(indexExpr) :
          /\ e.op \in DisjunctiveOps
          /\ DependsOn(e.a, indexVar)
          /\ DependsOn(e.b, indexVar)
    /\ Len(lattice.points[1].iterators) >= 2
    /\ \E n \in 1..Len(lattice.points[1].iterators) :
          lattice.points[1].iterators[n].dense
    /\ \E n \in 1..Len(lattice.points[1].iterators) :
          ~lattice.points[1].iterators[n].dense

\* C4: for a literal-free expression, make returns a lattice of at least one
\* point when a Read leaf mentions the index variable; otherwise every
\* sub-expression builds the empty lattice and make stops at its final
\* assertion
MakeDefinedIffMentioned ==
    (pc = "done" /\ ~HasImm(indexExpr)) =>
        IF DependsOn(indexExpr, indexVar)
        THEN lattice.status = "ok" /\ Len(lattice.points) >= 1
        ELSE /\ lattice.status = "iassert"
             /\ lattice.line = 183
             /\ \A e \in SubExprs(indexExpr) :
                   buildLattice(e, indexVar, iterators) = Ok(<<>>)

\* C4 witness: make returned from an expression with a scalar operand and a
\* disjunction whose pruning removed points
MakeDefinedWitness ==
    /\ Returned
    /\ \E k \in 1..Len(ReadLeaves(indexExpr)) :
          ~Mentions(ReadLeaves(indexExpr)[k], indexVar)
    /\ indexExpr.op \in DisjunctiveOps
    /\ DependsOn(indexExpr.a, indexVar)
    /\ DependsOn(indexExpr.b, indexVar)
    /\ LET na == Len(buildLattice(indexExpr.a, indexVar, iterators).points)
           nb == Len(buildLattice(indexExpr.b, indexVar, iterators).points)
       IN  Len(lattice.points) < na * nb + na + nb

\* C5: the point that conjunction (conjunctive) or disjunction (not
\* conjunctive) returns has the iterators of a followed by those of b, and
\* its merge iterators follow the table
MergeTable ==
    (pc = "point" /\ merged.status = "called") =>
        /\ merged.out.status = "ok"
        /\ LET r  == merged.out.points[1]
               ma == pointA.mergeIterators
               mb == pointB.mergeIterators
               aSparse == \A k \in 1..Len(ma) : ~ma[k].dense
               bSparse == \A k \in 1..Len(mb) : ~mb[k].dense
           IN  /\ r.iterators = pointA.iterators \o pointB.iterators
               /\ r.expr = [op |-> merged.op, a |-> pointA.expr, b |-> pointB.expr]
               /\ (aSparse /\ bSparse) => r.mergeIterators = ma \o mb
               /\ (~aSparse /\ ~bSparse) => r.mergeIterators = ma
               /\ (aSparse /\ ~bSparse) =>
                     r.mergeIterators = IF merged.conjunctive THEN ma ELSE mb
               /\ (~aSparse /\ bSparse) =>
                     r.mergeIterators = IF merged.conjunctive THEN mb ELSE ma

\* C5 witness: a conjunction of a dense point with a point of two sparse
\* merge iterators
MergeTableWitness ==
    /\ pc = "point"
    /\ merged.status = "called"
    /\ merged.conjunctive
    /\ pointA.mergeIterators[1].dense
    /\ Len(pointB.mergeIterators) = 2
    /\ merged.out.status = "ok"
    /\ merged.out.points[1].mergeIterators = pointB.mergeIterators

\* The lattices of the two operands of the expression
OperandA == buildLattice(indexExpr.a, indexVar, iterators).points

OperandB == buildLattice(indexExpr.b, indexVar, iterators).points

\* Point k of: the disjunctions of all pairs (A outer, B inner), then the
\* points of A, then the points of B
Candidate(op, A, B, k) ==
    IF k <= Len(A) * Len(B)
    THEN disjunctionPoint(op, A[((k - 1) \div Len(B)) + 1],
                          B[((k - 1) % Len(B)) + 1]).points[1]
    ELSE IF k <= Len(A) * Len(B) + Len(A)
    THEN A[k - Len(A) * Len(B)]
    ELSE B[k - Len(A) * Len(B) - Len(A)]

\* The candidates that hold every dense iterator of the first candidate
Kept(op, A, B) ==
    LET first == Candidate(op, A, B, 1).iterators
    IN  {k \in 1..(Len(A) * Len(B) + Len(A) + Len(B)) :
            \A d \in Range(first) :
                d.dense => d \in Range(Candidate(op, A, B, k).iterators)}

TopIsDisjunction ==
    /\ Returned
    /\ indexExpr.op \in DisjunctiveOps
    /\ DependsOn(indexExpr.a, indexVar)
    /\ DependsOn(indexExpr.b, indexVar)

SubLatticeIsSetInclusion ==
    (Returned /\ subLattice.status = "ok") =>
        LET p == lattice.points[subLattice.lp]
        IN  subLattice.points =
                SelectSeq(lattice.points,
                          LAMBDA q : Range(q.iterators) \subseteq Range(p.iterators))

\* C8: make stops at "not supported" for every expression that holds a
\* literal node
ImmNotSupported ==
    (pc = "done" /\ HasImm(indexExpr)) => lattice.status = "not_supported"

\* C8 witness: a literal that is the scalar operand of a binary operator
\* whose other operand depends on the index variable
ImmNotSupportedWitness ==
    /\ pc = "done"
    /\ indexExpr.op \in BinaryOps
    /\ indexExpr.b.op \in ImmOps
    /\ ~HasImm(indexExpr.a)
    /\ DependsOn(indexExpr.a, indexVar)
    /\ lattice.status = "not_supported"

\* C9: simplify of a non-empty list is non-empty, holds exactly the sparse
\* iterators in input order, or the first iterator when all are dense, and
\* simplify of the result is the result
SimplifyIdempotent ==
    /\ pc \in {"simplified", "resimplified"} =>
          LET x == simplifyIn
              P == {k \in 1..Len(x) : ~x[k].dense}
              out == simplifyOut[1]
          IN  /\ Len(x) >= 1
              /\ Len(out) >= 1
              /\ IF P = {}
                 THEN out = <<x[1]>>
                 ELSE /\ Len(out) = Cardinality(P)
                      /\ \A r \in 1..Len(out) : out[r] = x[Nth(P, r)]
    /\ pc = "resimplified" => simplifyOut[2] = simplifyOut[1]
    /\ pc = "iassert" => simplifyIn = <<>>

\* C9 witness: simplify applied again to the result of a list that mixes
\* dense and sparse iterators
SimplifyWitness ==
    /\ pc = "resimplified"
    /\ \E k \in 1..Len(simplifyIn) : simplifyIn[k].dense
    /\ Len(simplifyOut[2]) = 2
    /\ ~simplifyOut[2][1].dense

\* The values the reads take
Values == 0..2

Sqrt(x) == IF x <= 0 THEN 0 ELSE CHOOSE r \in 0..x : r * r <= x /\ (r + 1) * (r + 1) > x

Apply(op, x, y) ==
    CASE op = "Add" -> x + y
      [] op = "Sub" -> x - y
      [] op = "Mul" -> x * y
      [] op = "Div" -> IF y = 0 THEN 0 ELSE x \div y

\* The value of e when tensor t reads val[t], the reads in absent read 0
RECURSIVE Eval(_, _, _)
Eval(e, val, absent) ==
    IF e.op = "Read" THEN (IF e \in absent THEN 0 ELSE val[e.tensor])
    ELSE IF e.op = "Neg" THEN 0 - Eval(e.a, val, absent)
    ELSE IF e.op = "Sqrt" THEN Sqrt(Eval(e.a, val, absent))
    ELSE Apply(e.op, Eval(e.a, val, absent), Eval(e.b, val, absent))

\* The reads of e whose iterator is not in the iterator list of point p
Absent(e, p, var, registry) ==
    {r \in Range(ReadLeaves(e)) :
        Mentions(r, var) /\ IteratorOf(r, var, registry) \notin Range(p.iterators)}

\* Every Add and Sub node of e has both operands depending on var
DisjunctionsOfDependents(e, var) ==
    \A x \in SubExprs(e) :
        x.op \in DisjunctiveOps => DependsOn(x.a, var) /\ DependsOn(x.b, var)

\* No two Read leaves of e read the same tensor
DistinctReads(e) ==
    \A k, m \in 1..Len(ReadLeaves(e)) :
        k # m => ReadLeaves(e)[k] # ReadLeaves(e)[m]

\* C10: the expression of every point evaluates to the value of the full
\* expression with the reads whose iterator the point lacks read as zero
\* (stated for expressions that read each tensor once)
PointExprReadsAbsentAsZero ==
    (/\ Returned
     /\ DisjunctionsOfDependents(indexExpr, indexVar)
     /\ DistinctReads(indexExpr)) =>
        \A k \in 1..Len(lattice.points) :
            \A val \in [Tensors -> Values] :
                Eval(lattice.points[k].expr, val, {})
                    = Eval(indexExpr, val,
                           Absent(indexExpr, lattice.points[k], indexVar, iterators))


====
